---- MODULE Spec2Model ----
(***************************************************************************)
(* typesense_exporter: the two stat collectors (collector/api_stats.go,    *)
(* collector/cluster_metrics.go) scraped through the Prometheus registry   *)
(* (main.go), and the TypesenseCollector fan-out (collector/collector.go). *)
(*                                                                         *)
(* Numbers are rationals [num, den]; strings that the code inspects (the   *)
(* keys of the latency_ms / requests_per_second mappings) are sequences of *)
(* one-character strings.                                                  *)
(***************************************************************************)
EXTENDS Integers, Sequences, FiniteSets, Bags, TLC

VARIABLES
    up,                 \* c.up                (prometheus.Gauge), per collector
    totalScrapes,       \* c.totalScrapes      (prometheus.Counter), per collector
    jsonParseFailures,  \* c.jsonParseFailures (prometheus.Counter), per collector
    scr,                \* the running invocations of Collect, per collector and goroutine
    started,            \* number of Collect invocations begun, per collector
    crashed,            \* an unrecovered panic has ended the process
    Collectors,         \* TypesenseCollector.Collectors: the names in the map
    aggPc,              \* where TypesenseCollector.Collect stands
    wg,                 \* the sync.WaitGroup counter of the running Collect
    task,               \* the goroutine Collect launched for each name
    ch                  \* what has been sent on Collect's channel

scrapeVars == <<up, totalScrapes, jsonParseFailures, scr, started, crashed>>
aggVars == <<Collectors, aggPc, wg, task, ch>>
vars == <<scrapeVars, aggVars>>

\* ------------------------------------------------------------------ bounds
\* Collect invocations begun in one run, over both collectors.
MaxScrapes == 2
\* Largest number of keys in a latency_ms / requests_per_second mapping.
MaxKeys == 2
\* Largest number of samples one Update call sends.
MaxUpdateSamples == 2

\* --------------------------------------------------------------- constants
StatusOK == 200
MsPerSecond == 1000

\* ------------------------------------------------------------------ numbers
Num(n, d) == [num |-> n, den |-> d]
Whole(n) == Num(n, 1)
\* a = b as rationals
NumEq(a, b) == a.num * b.den = b.num * a.den
\* the division left out
DivNoop(v) == v
\* float64(v) / 1000.0
Div1000(v) == Num(v.num, v.den * MsPerSecond)

\* ------------------------------------------------------------------ strings
Space == " "

RECURSIVE SplitFrom(_, _, _)
\* strings.Split(s, " "), scanning from position i with the current piece cur
SplitFrom(s, i, cur) ==
    IF i > Len(s) THEN <<cur>>
    ELSE IF s[i] = Space THEN <<cur>> \o SplitFrom(s, i + 1, <<>>)
    ELSE SplitFrom(s, i + 1, Append(cur, s[i]))

Split(s) == SplitFrom(s, 1, <<>>)

\* splitStatKey: split[0], split[1]; indexing split[1] panics when the key
\* holds no space.
\* splitStatKey returning split[1], split[0]
splitStatKeySwapped(s) ==
    LET split == Split(s) IN
    IF Len(split) < 2
    THEN [panic |-> TRUE, method |-> <<>>, endpoint |-> <<>>]
    ELSE [panic |-> FALSE, method |-> split[2], endpoint |-> split[1]]
splitStatKey(s) ==
    LET split == Split(s) IN
    IF Len(split) < 2
    THEN [panic |-> TRUE, method |-> <<>>, endpoint |-> <<>>]
    ELSE [panic |-> FALSE, method |-> split[1], endpoint |-> split[2]]

\* --------------------------------------------------------- upstream values
\* c.url.String(): the "cluster" label value (default of -typesense-url)
URL == "http://localhost:8108"

ClusterMetricsName == "cluster_metrics"
APIStatsName == "api_stats"
\* the collectors main registers
Names == {ClusterMetricsName, APIStatsName}

KeyGetSearch == <<"G","E","T"," ","/","s","e","a","r","c","h">>
KeyPostDocuments == <<"P","O","S","T"," ","/","d","o","c","u","m","e","n","t","s">>
KeyNoSpace == <<"G","E","T">>
KeyTrailingSpace == <<"G","E","T"," ">>
KeyTwoSpaces == <<"G","E","T"," "," ","/","s","e","a","r","c","h">>
Keys == {KeyGetSearch, KeyPostDocuments, KeyNoSpace, KeyTrailingSpace, KeyTwoSpaces}

\* number of spaces in a key
Spaces(k) == Cardinality({i \in 1..Len(k) : k[i] = Space})
\* a key of the form "METHOD ENDPOINT"
WellFormedKey(k) == Spaces(k) = 1 /\ k[1] # Space /\ k[Len(k)] # Space

\* values the upstream reports for a key (requests_per_second, latency_ms)
RpsVal(k) ==
    CASE k = KeyGetSearch -> Num(125, 10)
      [] k = KeyPostDocuments -> Num(30, 10)
      [] k = KeyNoSpace -> Num(7, 1)
      [] k = KeyTrailingSpace -> Num(8, 1)
      [] OTHER -> Num(9, 1)
LatVal(k) ==
    CASE k = KeyGetSearch -> Num(123, 1)
      [] k = KeyPostDocuments -> Num(45, 10)
      [] k = KeyNoSpace -> Num(17, 1)
      [] k = KeyTrailingSpace -> Num(18, 1)
      [] OTHER -> Num(19, 1)

KeySets == {ks \in SUBSET Keys : Cardinality(ks) <= MaxKeys}

\* apiStatsResponse, by JSON field name
apiStatsResponse(lat, rps) ==
    [delete_latency_ms |-> Num(123, 1),
     delete_requests_per_second |-> Num(11, 1),
     import_latency_ms |-> Num(250, 1),
     import_requests_per_second |-> Num(13, 1),
     latency_ms |-> [k \in lat |-> LatVal(k)],
     pending_write_batches |-> Num(4, 1),
     requests_per_second |-> [k \in rps |-> RpsVal(k)],
     search_latency_ms |-> Num(35, 10),
     search_requests_per_second |-> Num(17, 1),
     total_requests_per_second |-> Num(41, 1),
     write_latency_ms |-> Num(1500, 1),
     write_requests_per_second |-> Num(19, 1)]

\* clusterMetricsResponse: the fields the metrics table reads
clusterMetricsResponse(b) ==
    [typesense_memory_active_bytes |-> Whole(1000 + b),
     typesense_memory_allocated_bytes |-> Whole(2000 + b),
     typesense_memory_fragmentation_ratio |-> Num(5 + b, 100),
     typesense_memory_mapped_bytes |-> Whole(3000 + b),
     typesense_memory_metadata_bytes |-> Whole(4000 + b),
     typesense_memory_resident_bytes |-> Whole(5000 + b),
     typesense_memory_retained_bytes |-> Whole(6000 + b)]

\* the fields of clusterMetricsResponse, by the Go type they decode into
ClusterFloatFields ==
    {"system_cpu1_active_percentage", "system_cpu2_active_percentage",
     "system_cpu3_active_percentage", "system_cpu4_active_percentage",
     "system_cpu_active_percentage", "typesense_memory_fragmentation_ratio"}
ClusterIntFields ==
    {"system_disk_total_bytes", "system_disk_used_bytes",
     "system_memory_total_bytes", "system_memory_used_bytes",
     "system_network_received_bytes", "system_network_sent_bytes",
     "typesense_memory_active_bytes", "typesense_memory_allocated_bytes",
     "typesense_memory_mapped_bytes", "typesense_memory_metadata_bytes",
     "typesense_memory_resident_bytes", "typesense_memory_retained_bytes"}
ClusterFields == ClusterFloatFields \cup ClusterIntFields

Digits == <<"0", "1", "2", "3", "4", "5", "6", "7", "8", "9">>
DigitChars == {Digits[i] : i \in 1..10}
DigitValue(digit) == (CHOOSE i \in 1..10 : Digits[i] = digit) - 1

RECURSIVE FormatInt(_)
\* the decimal text of a natural number
FormatInt(n) ==
    IF n < 10 THEN <<Digits[n + 1]>>
    ELSE Append(FormatInt(n \div 10), Digits[(n % 10) + 1])

\* the decimal text of n / 100, for n < 100
FormatHundredths(n) == <<"0", ".", Digits[(n \div 10) + 1], Digits[(n % 10) + 1]>>

\* the text the upstream puts between the quotes of a cluster-metrics field
\* whose value is v
FormatField(f, v) ==
    IF f \in ClusterIntFields THEN FormatInt(v.num) ELSE FormatHundredths(v.num)

\* the value the upstream means for a field the metrics table does not read
OtherFieldValue(f) == IF f \in ClusterIntFields THEN Whole(64) ELSE Num(25, 100)

\* texts that are no number
BadTexts == {<<>>, <<"N", "a", "N">>, <<"1", "2", "x">>}
\* texts that do not parse into the type of field f
CorruptTexts(f) ==
    BadTexts \cup (IF f \in ClusterIntFields THEN {<<"1", ".", "5">>} ELSE {})

\* the JSON object of a cluster-metrics body: every field a quoted string;
\* field bad (if any) carries text instead of its number
clusterWire(b, bad, text) ==
    [f \in ClusterFields |->
        IF f = bad THEN text
        ELSE IF f \in DOMAIN clusterMetricsResponse(b)
        THEN FormatField(f, clusterMetricsResponse(b)[f])
        ELSE FormatField(f, OtherFieldValue(f))]

\* a cluster-metrics body: the values the upstream means, and what it sends
clusterBody(b, bad, text) ==
    clusterMetricsResponse(b) @@ [wire |-> clusterWire(b, bad, text)]

NoField == "none"

\* `var resp` before decoding
ZeroResponse(c) ==
    IF c = APIStatsName
    THEN [f \in DOMAIN apiStatsResponse({}, {}) |->
            IF f \in {"latency_ms", "requests_per_second"}
            THEN apiStatsResponse({}, {})[f] ELSE Whole(0)]
    ELSE [f \in DOMAIN clusterMetricsResponse(0) |-> Whole(0)]

\* What the upstream does with one GET: the transport fails, or it answers
\* with a status and a body that may not be readable or may not be JSON.
Reply(getErr, status, readErr, validJSON, body) ==
    [getErr |-> getErr, status |-> status, readErr |-> readErr,
     validJSON |-> validJSON, body |-> body]

NoReply(c) == Reply(FALSE, 0, FALSE, FALSE, ZeroResponse(c))

Statuses == {StatusOK, 204, 404, 500}

FailingReplies(c) ==
    {Reply(TRUE, 0, FALSE, FALSE, ZeroResponse(c))}
    \cup {Reply(FALSE, st, FALSE, v, ZeroResponse(c)) :
            st \in Statuses \ {StatusOK}, v \in BOOLEAN}
    \cup {Reply(FALSE, StatusOK, TRUE, FALSE, ZeroResponse(c)),
          Reply(FALSE, StatusOK, FALSE, FALSE, ZeroResponse(c))}

GoodBodies(c) ==
    IF c = APIStatsName
    THEN {apiStatsResponse(lat, rps) : lat \in KeySets, rps \in KeySets}
    ELSE {clusterBody(b, NoField, <<>>) : b \in {0, 1}}

\* well-formed JSON in which one quoted field does not hold a number of the
\* field's type
UnparsableBodies(c) ==
    IF c = APIStatsName THEN {}
    ELSE UNION {{clusterBody(b, f, t) : t \in CorruptTexts(f)} :
                  b \in {0, 1}, f \in ClusterFields}

\* every reply considered
Replies(c) ==
    FailingReplies(c)
    \cup {Reply(FALSE, StatusOK, FALSE, TRUE, b) : b \in GoodBodies(c)}
    \cup {Reply(FALSE, StatusOK, FALSE, TRUE, b) : b \in UnparsableBodies(c)}

\* the replies used where scrapes of one collector overlap
FewBodies(c) ==
    IF c = APIStatsName
    THEN {apiStatsResponse({KeyGetSearch}, {KeyGetSearch, KeyPostDocuments}),
          apiStatsResponse({KeyNoSpace}, {})}
    ELSE {clusterBody(0, NoField, <<>>)}

FewReplies(c) ==
    {Reply(TRUE, 0, FALSE, FALSE, ZeroResponse(c)),
     Reply(FALSE, 500, FALSE, TRUE, ZeroResponse(c)),
     Reply(FALSE, StatusOK, FALSE, FALSE, ZeroResponse(c))}
    \cup {Reply(FALSE, StatusOK, FALSE, TRUE, b) : b \in FewBodies(c)}

\* ------------------------------------------------------- descriptor tables
Namespace == "typesense"
BuildFQName(ns, subsystem, name) == <<ns, subsystem, name>>

\* APIStats.metrics / ClusterMetrics.metrics: the descriptors, in table order
apiMetricNames ==
    <<"delete_latency_seconds", "delete_requests_per_second",
      "import_latency_seconds", "import_requests_per_second",
      "pending_write_batches",
      "search_latency_seconds", "search_requests_per_second",
      "total_requests_per_second",
      "write_latency_seconds", "write_requests_per_second">>

clusterMetricNames ==
    <<"memory_active_bytes", "memory_allocated_bytes",
      "memory_fragmentation_ratio", "memory_mapped_bytes",
      "memory_metadata_bytes", "memory_resident_bytes",
      "memory_retained_bytes">>

\* APIStats.stats: the vector descriptors, in table order
apiStatNames == <<"latency_seconds", "requests_per_second">>

metricNames(c) == IF c = APIStatsName THEN apiMetricNames ELSE clusterMetricNames
\* the stats table without its requests_per_second entry
statNamesLatencyOnly(c) == IF c = APIStatsName THEN <<"latency_seconds">> ELSE <<>>
statNames(c) == IF c = APIStatsName THEN apiStatNames ELSE <<>>

\* the Value closure of each entry of APIStats.metrics
apiMetricValue(name, resp) ==
    CASE name = "delete_latency_seconds" -> Div1000(resp.delete_latency_ms)
      [] name = "delete_requests_per_second" -> resp.delete_requests_per_second
      [] name = "import_latency_seconds" -> Div1000(resp.import_latency_ms)
      [] name = "import_requests_per_second" -> resp.import_requests_per_second
      [] name = "pending_write_batches" -> resp.pending_write_batches
      [] name = "search_latency_seconds" -> Div1000(resp.search_latency_ms)
      [] name = "search_requests_per_second" -> resp.search_requests_per_second
      [] name = "total_requests_per_second" -> resp.total_requests_per_second
      [] name = "write_latency_seconds" -> Div1000(resp.write_latency_ms)
      [] name = "write_requests_per_second" -> resp.write_requests_per_second

\* the Value closure of each entry of ClusterMetrics.metrics
clusterMetricValue(name, resp) ==
    CASE name = "memory_active_bytes" -> resp.typesense_memory_active_bytes
      [] name = "memory_allocated_bytes" -> resp.typesense_memory_allocated_bytes
      [] name = "memory_fragmentation_ratio" -> resp.typesense_memory_fragmentation_ratio
      [] name = "memory_mapped_bytes" -> resp.typesense_memory_mapped_bytes
      [] name = "memory_metadata_bytes" -> resp.typesense_memory_metadata_bytes
      [] name = "memory_resident_bytes" -> resp.typesense_memory_resident_bytes
      [] name = "memory_retained_bytes" -> resp.typesense_memory_retained_bytes

metricValue(c, name, resp) ==
    IF c = APIStatsName THEN apiMetricValue(name, resp)
    ELSE clusterMetricValue(name, resp)

\* the mapping a vector descriptor iterates, and the conversion of its values
statMapping(name, resp) ==
    IF name = "latency_seconds" THEN resp.latency_ms ELSE resp.requests_per_second
statEntryValue(name, val) ==
    IF name = "latency_seconds" THEN Div1000(val) ELSE val

labeledValues(labels, value) == [labels |-> labels, value |-> value]

RECURSIVE statEntries(_, _, _)
\* the loop `for key, val := range mapping`: one labeledValues per key
statEntries(name, m, keys) ==
    IF keys = {} THEN EmptyBag
    ELSE LET key == CHOOSE k \in keys : TRUE
             sp == splitStatKey(key)
         IN SetToBag({labeledValues(<<URL, sp.method, sp.endpoint>>,
                                    statEntryValue(name, m[key]))})
            (+) statEntries(name, m, keys \ {key})

\* the Value closure of an entry of APIStats.stats: it panics when
\* splitStatKey panics on one of the keys, and returns the slice otherwise
apiStatValue(name, resp) ==
    LET m == statMapping(name, resp) IN
    IF \E k \in DOMAIN m : splitStatKey(k).panic
    THEN [panic |-> TRUE, ret |-> EmptyBag]
    ELSE [panic |-> FALSE, ret |-> statEntries(name, m, DOMAIN m)]

\* the variable labels the descriptors declare: defaultAPIStatsLabels /
\* defaultClusterMetricsLabels for the metrics tables, and the three labels of
\* the two stats descriptors
defaultLabels == <<"cluster">>
statLabels == <<"cluster", "method", "endpoint">>
labelNames(c, name) ==
    IF \E i \in 1..Len(statNames(c)) : statNames(c)[i] = name
    THEN statLabels ELSE defaultLabels

\* prometheus.MustNewConstMetric(desc, GaugeValue, value, labels...)
ConstMetric(c, name, value, labels) ==
    [desc |-> BuildFQName(Namespace, c, name), labels |-> labels, value |-> value]

RECURSIVE emitMetrics(_, _, _)
\* `for _, metric := range c.metrics { ch <- ... }`, from table index i on
emitMetrics(c, resp, i) ==
    IF i > Len(metricNames(c)) THEN EmptyBag
    ELSE SetToBag({ConstMetric(c, metricNames(c)[i],
                               metricValue(c, metricNames(c)[i], resp), <<URL>>)})
         (+) emitMetrics(c, resp, i + 1)

\* the samples of one vector descriptor's labeledValues
statSamples(c, name, ret) ==
    LET lvs == BagToSet(ret) IN
    IF lvs = {} THEN EmptyBag
    ELSE [smp \in {ConstMetric(c, name, v.value, v.labels) : v \in lvs} |->
            CopiesIn(labeledValues(smp.labels, smp.value), ret)]

RECURSIVE emitStats(_, _, _)
\* `for _, stat := range c.stats { for _, v := range stat.Value(resp) ... }`
\* from table index i on: the samples sent, and whether a Value panicked
emitStats(c, resp, i) ==
    IF i > Len(statNames(c)) THEN [panic |-> FALSE, sent |-> EmptyBag]
    ELSE LET val == apiStatValue(statNames(c)[i], resp) IN
         IF val.panic THEN [panic |-> TRUE, sent |-> EmptyBag]
         ELSE LET rest == emitStats(c, resp, i + 1) IN
              [panic |-> rest.panic,
               sent |-> statSamples(c, statNames(c)[i], val.ret) (+) rest.sent]

\* Collect after c.up.Set(1): the two emitting loops
emitAll(c, resp) ==
    LET st == emitStats(c, resp, 1) IN
    [panic |-> st.panic, sent |-> emitMetrics(c, resp, 1) (+) st.sent]

RECURSIVE DigitsValue(_)
\* the number a text of digits stands for
DigitsValue(t) ==
    IF Len(t) = 0 THEN 0
    ELSE 10 * DigitsValue(SubSeq(t, 1, Len(t) - 1)) + DigitValue(t[Len(t)])

RECURSIVE PowerOfTen(_)
PowerOfTen(n) == IF n = 0 THEN 1 ELSE 10 * PowerOfTen(n - 1)

\* strconv.ParseInt(text, 10, 64) of a quoted field
ParseInt(t) ==
    IF Len(t) > 0 /\ \A i \in 1..Len(t) : t[i] \in DigitChars
    THEN [ok |-> TRUE, value |-> Whole(DigitsValue(t))]
    ELSE [ok |-> FALSE, value |-> Whole(0)]

\* strconv.ParseFloat(text, 64) of a quoted field: digits with at most one point
ParseFloat(t) ==
    LET points == {i \in 1..Len(t) : t[i] = "."} IN
    IF /\ Len(t) > 0
       /\ t[1] \in DigitChars
       /\ \A i \in 1..Len(t) : t[i] \in DigitChars \cup {"."}
       /\ Cardinality(points) <= 1
    THEN IF points = {}
         THEN [ok |-> TRUE, value |-> Whole(DigitsValue(t))]
         ELSE LET p == CHOOSE i \in points : TRUE IN
              [ok |-> TRUE,
               value |-> Num(DigitsValue(SubSeq(t, 1, p - 1) \o SubSeq(t, p + 1, Len(t))),
                             PowerOfTen(Len(t) - p))]
    ELSE [ok |-> FALSE, value |-> Whole(0)]

\* the `,string` decoding of one field of clusterMetricsResponse
ParseField(f, t) == IF f \in ClusterIntFields THEN ParseInt(t) ELSE ParseFloat(t)

\* json.Unmarshal going on as if every field had parsed
UnmarshalLenient(c, body) ==
    IF c = APIStatsName THEN [err |-> FALSE, resp |-> body]
    ELSE [err |-> FALSE,
          resp |-> [f \in DOMAIN ZeroResponse(c) |-> ParseField(f, body.wire[f]).value]]
\* json.Unmarshal(bts, &resp) of a body that is JSON: for clusterMetricsResponse
\* every field is decoded from its quoted text, the fields that parse are
\* stored, and an error is returned if one does not parse
Unmarshal(c, body) ==
    IF c = APIStatsName THEN [err |-> FALSE, resp |-> body]
    ELSE [err |-> \E f \in ClusterFields : ~ParseField(f, body.wire[f]).ok,
          resp |-> [f \in DOMAIN ZeroResponse(c) |-> ParseField(f, body.wire[f]).value]]

\* what fetchAndDecode returns after json.Unmarshal on well-formed JSON
decodeResult(c, body) ==
    LET u == Unmarshal(c, body) IN
    [err |-> u.err, parseFailure |-> u.err, decoded |-> TRUE, resp |-> u.resp]

\* fetchAndDecode counting a non-200 status as a parse failure
fetchAndDecodeCountsStatus(c, reply) ==
    IF reply.getErr
    THEN [err |-> TRUE, parseFailure |-> FALSE, decoded |-> FALSE, resp |-> ZeroResponse(c)]
    ELSE IF reply.status # StatusOK
    THEN [err |-> TRUE, parseFailure |-> TRUE, decoded |-> FALSE, resp |-> ZeroResponse(c)]
    ELSE IF reply.readErr
    THEN [err |-> TRUE, parseFailure |-> TRUE, decoded |-> FALSE, resp |-> ZeroResponse(c)]
    ELSE IF ~reply.validJSON
    THEN [err |-> TRUE, parseFailure |-> TRUE, decoded |-> TRUE, resp |-> ZeroResponse(c)]
    ELSE decodeResult(c, reply.body)

\* fetchAndDecode returning the Unmarshal error without jsonParseFailures.Inc()
fetchAndDecodeForgetsInc(c, reply) ==
    IF reply.getErr
    THEN [err |-> TRUE, parseFailure |-> FALSE, decoded |-> FALSE, resp |-> ZeroResponse(c)]
    ELSE IF reply.status # StatusOK
    THEN [err |-> TRUE, parseFailure |-> FALSE, decoded |-> FALSE, resp |-> ZeroResponse(c)]
    ELSE IF reply.readErr
    THEN [err |-> TRUE, parseFailure |-> TRUE, decoded |-> FALSE, resp |-> ZeroResponse(c)]
    ELSE IF ~reply.validJSON
    THEN [err |-> TRUE, parseFailure |-> FALSE, decoded |-> TRUE, resp |-> ZeroResponse(c)]
    ELSE decodeResult(c, reply.body)

\* fetchAndDecodeAPIStats / fetchAndDecodeClusterMetrics on an upstream reply:
\* the error returned, whether jsonParseFailures.Inc() ran, whether
\* json.Unmarshal ran, and the response returned
fetchAndDecode(c, reply) ==
    IF reply.getErr
    THEN [err |-> TRUE, parseFailure |-> FALSE, decoded |-> FALSE, resp |-> ZeroResponse(c)]
    ELSE IF reply.status # StatusOK
    THEN [err |-> TRUE, parseFailure |-> FALSE, decoded |-> FALSE, resp |-> ZeroResponse(c)]
    ELSE IF reply.readErr
    THEN [err |-> TRUE, parseFailure |-> TRUE, decoded |-> FALSE, resp |-> ZeroResponse(c)]
    ELSE IF ~reply.validJSON
    THEN [err |-> TRUE, parseFailure |-> TRUE, decoded |-> TRUE, resp |-> ZeroResponse(c)]
    ELSE decodeResult(c, reply.body)

\* a counter that is stored to instead of added to
CounterStore(v) == 1
\* an Inc that leaves the counter as it was
CounterKeep(v) == v
\* prometheus.Counter.Inc (atomic)
CounterInc(v) == v + 1

\* the deferred sends: the collector's own metric objects
deferredSends == <<"up", "total_scrapes", "json_parse_failures">>

\* Describe: `for _, metric := range c.metrics { ch <- metric.Desc }`, then the
\* descriptors of up, totalScrapes and jsonParseFailures
Describe(c) ==
    {BuildFQName(Namespace, c, metricNames(c)[i]) : i \in 1..Len(metricNames(c))}
    \cup {BuildFQName(Namespace, c, deferredSends[i]) : i \in 1..Len(deferredSends)}

\* ------------------------------------------------------- Collect, stepwise
\* the goroutines that may run one collector's Collect at the same time
Slots == 1..MaxScrapes

\* a goroutine not running Collect
Idle(c) ==
    [pc |-> "idle", reply |-> NoReply(c), err |-> FALSE, decoded |-> FALSE,
     resp |-> ZeroResponse(c), upSet |-> -1, sent |-> EmptyBag, live |-> <<>>,
     panicking |-> FALSE, before |-> [total |-> 0, failures |-> 0],
     written |-> <<>>]

TotalStarted == started[ClusterMetricsName] + started[APIStatsName]

InitScrapes ==
    /\ up = [c \in Names |-> 0]
    /\ totalScrapes = [c \in Names |-> 0]
    /\ jsonParseFailures = [c \in Names |-> 0]
    /\ scr = [c \in Names |-> [i \in Slots |-> Idle(c)]]
    /\ started = [c \in Names |-> 0]
    /\ crashed = FALSE

\* Collect is called: c.totalScrapes.Inc(), the deferred sends are registered,
\* and the goroutine blocks in client.Get
Begin(c, i) ==
    /\ ~crashed
    /\ scr[c][i].pc = "idle"
    /\ TotalStarted < MaxScrapes
    /\ totalScrapes' = [totalScrapes EXCEPT ![c] = CounterInc(@)]
    /\ started' = [started EXCEPT ![c] = @ + 1]
    /\ scr' = [scr EXCEPT ![c][i] =
                 [@ EXCEPT !.pc = "fetching",
                           !.before = [total |-> totalScrapes[c],
                                       failures |-> jsonParseFailures[c]]]]
    /\ UNCHANGED <<up, jsonParseFailures, crashed, aggVars>>

\* fetchAndDecode returns, the upstream having answered with one of replies
Fetch(c, i, replies) ==
    /\ ~crashed
    /\ scr[c][i].pc = "fetching"
    /\ \E reply \in replies :
       LET fd == fetchAndDecode(c, reply) IN
       /\ jsonParseFailures' =
            IF fd.parseFailure
            THEN [jsonParseFailures EXCEPT ![c] = CounterInc(@)]
            ELSE jsonParseFailures
       /\ scr' = [scr EXCEPT ![c][i] =
                    [@ EXCEPT !.pc = "fetched", !.reply = reply, !.err = fd.err,
                              !.decoded = fd.decoded, !.resp = fd.resp]]
    /\ UNCHANGED <<up, totalScrapes, started, crashed, aggVars>>

\* the value Collect gives the up gauge, and where it goes on
upValue(err) == IF err THEN 0 ELSE 1
afterSet(err) == IF err THEN "deferred" ELSE "emitting"

\* `if err != nil { c.up.Set(0); return }` or `c.up.Set(1)`
SetUp(c, i) ==
    /\ ~crashed
    /\ scr[c][i].pc = "fetched"
    /\ up' = [up EXCEPT ![c] = upValue(scr[c][i].err)]
    /\ scr' = [scr EXCEPT ![c][i] =
                 [@ EXCEPT !.pc = afterSet(scr[c][i].err),
                           !.upSet = upValue(scr[c][i].err)]]
    /\ UNCHANGED <<totalScrapes, jsonParseFailures, started, crashed, aggVars>>

\* the two emitting loops; a panic in a Value closure unwinds to the deferred
\* function
Emit(c, i) ==
    /\ ~crashed
    /\ scr[c][i].pc = "emitting"
    /\ LET e == emitAll(c, scr[c][i].resp) IN
       scr' = [scr EXCEPT ![c][i] =
                 [@ EXCEPT !.pc = "deferred", !.sent = e.sent,
                           !.panicking = e.panic]]
    /\ UNCHANGED <<up, totalScrapes, jsonParseFailures, started, crashed, aggVars>>

\* a failed fetch ending the process too (logger.Fatalln for logger.Warnln)
endsProcessOnError(s) == s.panicking \/ s.err
\* whether Collect ends the process: a panic goes on past the deferred
\* function and nothing recovers it; a failed fetch is logged and returns
endsProcess(s) == s.panicking

\* the deferred function sends the three metric objects; Collect then returns,
\* or the panic goes on and ends the process
Deferred(c, i) ==
    /\ ~crashed
    /\ scr[c][i].pc = "deferred"
    /\ scr' = [scr EXCEPT ![c][i] =
                 [@ EXCEPT !.pc = IF endsProcess(scr[c][i]) THEN "panicked" ELSE "done",
                           !.live = deferredSends]]
    /\ crashed' = endsProcess(scr[c][i])
    /\ UNCHANGED <<up, totalScrapes, jsonParseFailures, started, aggVars>>

\* the value a live metric object holds now
liveValue(c, name) ==
    CASE name = "up" -> up[c]
      [] name = "total_scrapes" -> totalScrapes[c]
      [] name = "json_parse_failures" -> jsonParseFailures[c]

\* the registry takes the metric objects the deferred function has sent off
\* the channel and calls Write on each: the sample of a gauge or counter
\* object gets the value the object holds when it is written
Write(c, i) ==
    /\ ~crashed
    /\ scr[c][i].pc = "done"
    /\ Len(scr[c][i].written) < Len(scr[c][i].live)
    /\ scr' = [scr EXCEPT ![c][i].written =
                 [k \in 1..Len(scr[c][i].live) |-> liveValue(c, scr[c][i].live[k])]]
    /\ UNCHANGED <<up, totalScrapes, jsonParseFailures, started, crashed, aggVars>>

\* the registry has gathered the scrape's samples; the goroutine is free
Return(c, i) ==
    /\ ~crashed
    /\ scr[c][i].pc = "done"
    /\ Len(scr[c][i].written) = Len(scr[c][i].live)
    /\ scr' = [scr EXCEPT ![c][i] = Idle(c)]
    /\ UNCHANGED <<up, totalScrapes, jsonParseFailures, started, crashed, aggVars>>

\* ------------------------------------------- TypesenseCollector (fan-out)
\* NewTypesenseCollector: `collectors := make(map[string]Collector)`
NewTypesenseCollector == {}

scrapeDurationDesc == BuildFQName(Namespace, "scrape", "duration_seconds")
scrapeSuccessDesc == BuildFQName(Namespace, "scrape", "success")

\* time.Since(begin).Seconds(), as the clock may report it
Durations == {Num(1, 1000), Num(2, 1)}

\* a goroutine of Collect that does not exist (yet)
NoTask == [pc |-> "none", err |-> FALSE, updateSent |-> 0, duration |-> Whole(0)]

InitAggregator ==
    /\ Collectors \in SUBSET Names
    /\ aggPc = "idle"
    /\ wg = 0
    /\ task = [n \in Names |-> NoTask]
    /\ ch = EmptyBag

\* wg.Add(1), whatever the map holds
wgAddOne(collectors) == IF collectors = {} THEN 0 ELSE 1
\* wg.Add(len(e.Collectors))
wgAdd(collectors) == Cardinality(collectors)

\* Collect is called: wg.Add, then one goroutine per entry of the map; Collect
\* blocks in wg.Wait
CollectCall ==
    /\ aggPc = "idle"
    /\ wg' = wgAdd(Collectors)
    /\ task' = [n \in Names |->
                  IF n \in Collectors THEN [NoTask EXCEPT !.pc = "update"] ELSE NoTask]
    /\ ch' = EmptyBag
    /\ aggPc' = "waiting"
    /\ UNCHANGED <<Collectors, scrapeVars>>

\* a sample the collector behind the interface sends from Update
UpdateSample(name, k) == [desc |-> BuildFQName(Namespace, name, "field"),
                          labels |-> <<name>>, value |-> Whole(k)]

\* c.Update sends one more sample
UpdateSend(name) ==
    /\ task[name].pc = "update"
    /\ task[name].updateSent < MaxUpdateSamples
    /\ ch' = ch (+) SetToBag({UpdateSample(name, task[name].updateSent + 1)})
    /\ task' = [task EXCEPT ![name].updateSent = @ + 1]
    /\ UNCHANGED <<Collectors, aggPc, wg, scrapeVars>>

\* c.Update returns err; execute measures the duration
UpdateReturn(name, err, d) ==
    /\ task[name].pc = "update"
    /\ task' = [task EXCEPT ![name] =
                  [@ EXCEPT !.pc = "sendDuration", !.err = err, !.duration = d]]
    /\ UNCHANGED <<Collectors, aggPc, wg, ch, scrapeVars>>

\* `success` left at 1 whatever Update returned
successAlwaysOne(err) == Whole(1)
\* `success` as execute computes it from err
successValue(err) == IF err THEN Whole(0) ELSE Whole(1)

\* ch <- MustNewConstMetric(scrapeDurationDesc, GaugeValue, duration, name)
SendDuration(name) ==
    /\ task[name].pc = "sendDuration"
    /\ ch' = ch (+) SetToBag({[desc |-> scrapeDurationDesc, labels |-> <<name>>,
                               value |-> task[name].duration]})
    /\ task' = [task EXCEPT ![name].pc = "sendSuccess"]
    /\ UNCHANGED <<Collectors, aggPc, wg, scrapeVars>>

\* ch <- MustNewConstMetric(scrapeSuccessDesc, GaugeValue, success, name)
SendSuccess(name) ==
    /\ task[name].pc = "sendSuccess"
    /\ ch' = ch (+) SetToBag({[desc |-> scrapeSuccessDesc, labels |-> <<name>>,
                               value |-> successValue(task[name].err)]})
    /\ task' = [task EXCEPT ![name].pc = "wgDone"]
    /\ UNCHANGED <<Collectors, aggPc, wg, scrapeVars>>

\* wg.Done(); the goroutine ends
TaskDone(name) ==
    /\ task[name].pc = "wgDone"
    /\ wg' = wg - 1
    /\ task' = [task EXCEPT ![name].pc = "exited"]
    /\ UNCHANGED <<Collectors, aggPc, ch, scrapeVars>>

\* wg.Wait() returns once the counter is zero, and Collect returns
CollectReturn ==
    /\ aggPc = "waiting"
    /\ wg = 0
    /\ aggPc' = "returned"
    /\ UNCHANGED <<Collectors, wg, task, ch, scrapeVars>>

\* the caller has consumed the channel; the next collection request may come
CollectIdle ==
    /\ aggPc = "returned"
    /\ aggPc' = "idle"
    /\ task' = [n \in Names |-> NoTask]
    /\ ch' = EmptyBag
    /\ UNCHANGED <<Collectors, wg, scrapeVars>>

\* ---------------------------------------------------------- specifications
\* the process as main builds it: the two stat collectors registered with the
\* registry, and a TypesenseCollector as NewTypesenseCollector returns it
Init ==
    /\ InitScrapes
    /\ InitAggregator
    /\ Collectors = NewTypesenseCollector

\* no Collect is running
Quiet == \A c \in Names, i \in Slots : scr[c][i].pc = "idle"

\* scrapes one after the other, over every reply of the upstream
NextScrape ==
    \E c \in Names :
       \/ Quiet /\ Begin(c, 1)
       \/ Fetch(c, 1, Replies(c))
       \/ SetUp(c, 1)
       \/ Emit(c, 1)
       \/ Deferred(c, 1)
       \/ Write(c, 1)
       \/ Return(c, 1)

SpecScrape == Init /\ [][NextScrape]_vars

\* Collect invocations overlapping in any way: the registry runs the two
\* collectors of a scrape request side by side, and scrape requests overlap
NextOverlap ==
    \E c \in Names, i \in Slots :
       \/ Begin(c, i)
       \/ Fetch(c, i, FewReplies(c))
       \/ SetUp(c, i)
       \/ Emit(c, i)
       \/ Deferred(c, i)
       \/ Write(c, i)
       \/ Return(c, i)

SpecOverlap == Init /\ [][NextOverlap]_vars

\* TypesenseCollector.Collect on a value whose (exported) Collectors map holds
\* any of the names
InitAggregate == InitScrapes /\ InitAggregator

NextAggregate ==
    \/ CollectCall
    \/ \E name \in Collectors : UpdateSend(name)
    \/ \E name \in Collectors, err \in BOOLEAN, d \in Durations :
         UpdateReturn(name, err, d)
    \/ \E name \in Collectors : SendDuration(name)
    \/ \E name \in Collectors : SendSuccess(name)
    \/ \E name \in Collectors : TaskDone(name)
    \/ CollectReturn
    \/ CollectIdle

SpecAggregate == InitAggregate /\ [][NextAggregate]_vars

\* ------------------------------------------------------------------ claims
\* number of samples of bag b with descriptor desc
CountDesc(b, desc) ==
    LET of == {x \in BagToSet(b) : x.desc = desc} IN
    IF of = {} THEN 0 ELSE BagCardinality([x \in of |-> CopiesIn(x, b)])

\* Collect has ended for the scrape: it returned, or it ended in a panic
Ended(s) == s.pc \in {"done", "panicked"}

\* the GET of the scrape failed in transport, or came back with a status other
\* than 200
TransportOrStatusFailure(s) ==
    s.reply.getErr \/ (~s.reply.getErr /\ s.reply.status # StatusOK)

\* the GET came back with status 200 and a body that could not be read or
\* was not JSON
BodyFailure(s) ==
    /\ ~s.reply.getErr
    /\ s.reply.status = StatusOK
    /\ s.reply.readErr \/ ~s.reply.validJSON

\* C1: a scrape whose GET fails in transport or comes back with a non-success
\* status leaves up at 0, has raised total_scrapes by exactly 1, leaves
\* json_parse_failures as it was, attempts no decode, and sends nothing but
\* the up, total_scrapes and json_parse_failures metrics.
C1_FetchFailureHandling ==
    \A c \in Names :
        LET s == scr[c][1] IN
        (Ended(s) /\ TransportOrStatusFailure(s)) =>
            /\ s.pc = "done"
            /\ s.upSet = 0
            /\ up[c] = 0
            /\ totalScrapes[c] = s.before.total + 1
            /\ jsonParseFailures[c] = s.before.failures
            /\ ~s.decoded
            /\ s.sent = EmptyBag
            /\ s.live = <<"up", "total_scrapes", "json_parse_failures">>

\* C1 witness: a second api-stats scrape that got a 500, and a state where the
\* counter of parse failures was already 1 before it
C1_Witness ==
    LET s == scr[APIStatsName][1] IN
    /\ s.pc = "done"
    /\ ~s.reply.getErr /\ s.reply.status = 500
    /\ s.before.total = 1
    /\ s.before.failures = 1

\* C2: a scrape whose GET comes back with status 200 and a body that cannot be
\* read or is not JSON raises json_parse_failures by exactly 1 and
\* total_scrapes by exactly 1, leaves up at 0 and sends no field-derived metric.
C2_ParseFailureHandling ==
    \A c \in Names :
        LET s == scr[c][1] IN
        (Ended(s) /\ BodyFailure(s)) =>
            /\ s.pc = "done"
            /\ jsonParseFailures[c] = s.before.failures + 1
            /\ totalScrapes[c] = s.before.total + 1
            /\ s.upSet = 0
            /\ up[c] = 0
            /\ s.sent = EmptyBag

\* C2 witness: a cluster-metrics scrape that read a body that is not JSON,
\* after an earlier scrape
C2_Witness ==
    LET s == scr[ClusterMetricsName][1] IN
    /\ s.pc = "done"
    /\ BodyFailure(s) /\ ~s.reply.readErr
    /\ s.before.total = 1

\* the descriptor of a metric of collector c
Desc(c, name) == BuildFQName(Namespace, c, name)

\* every key of both mappings of an api-stats body holds a space; so it is
\* of every body whose keys have the form "METHOD ENDPOINT"
KeysSplit(c, body) ==
    c = APIStatsName =>
        \A k \in (DOMAIN body.latency_ms) \cup (DOMAIN body.requests_per_second) :
            Spaces(k) >= 1

\* C3: for a valid upstream body, the scrape succeeds: it sets up to 1 and
\* sends exactly one sample for every scalar descriptor of the collector, and
\* for each vector descriptor exactly as many samples as its mapping has keys
\* (and nothing else).
C3_SamplesPerDescriptor ==
    \A c \in Names :
        LET s == scr[c][1]
            body == s.reply.body
        IN
        (Ended(s) /\ ~s.err /\ KeysSplit(c, body)) =>
            /\ s.pc = "done"
            /\ s.upSet = 1
            /\ \A j \in 1..Len(metricNames(c)) :
                 CountDesc(s.sent, Desc(c, metricNames(c)[j])) = 1
            /\ c = APIStatsName =>
                 /\ CountDesc(s.sent, Desc(c, "latency_seconds"))
                      = Cardinality(DOMAIN body.latency_ms)
                 /\ CountDesc(s.sent, Desc(c, "requests_per_second"))
                      = Cardinality(DOMAIN body.requests_per_second)
                 /\ BagCardinality(s.sent)
                      = 10 + Cardinality(DOMAIN body.latency_ms)
                           + Cardinality(DOMAIN body.requests_per_second)
            /\ c = ClusterMetricsName => BagCardinality(s.sent) = 7

\* C3 witness: an api-stats scrape that returned, of a body with two
\* latency_ms keys (one of them with two spaces) and one requests_per_second key
C3_Witness ==
    LET s == scr[APIStatsName][1] IN
    /\ s.pc = "done" /\ ~s.err
    /\ DOMAIN s.reply.body.latency_ms = {KeyGetSearch, KeyTwoSpaces}
    /\ DOMAIN s.reply.body.requests_per_second = {KeyPostDocuments}

\* position of the space of a key "METHOD ENDPOINT", and its two parts
SpacePos(k) == CHOOSE p \in 1..Len(k) : k[p] = Space
MethodOf(k) == SubSeq(k, 1, SpacePos(k) - 1)
EndpointOf(k) == SubSeq(k, SpacePos(k) + 1, Len(k))

Times1000(v) == Num(v.num * 1000, v.den)

\* the samples of a vector descriptor that a scrape sent
VectorSamples(s, name) ==
    {x \in BagToSet(s.sent) : x.desc = Desc(APIStatsName, name)}

\* the mapping of the spec's example
ExampleRps == [k \in {KeyGetSearch, KeyPostDocuments} |->
                 IF k = KeyGetSearch THEN Num(125, 10) ELSE Num(30, 10)]
ExampleSamples ==
    {[desc |-> <<"typesense", "api_stats", "requests_per_second">>,
      labels |-> <<URL, <<"G","E","T">>, <<"/","s","e","a","r","c","h">> >>,
      value |-> Num(125, 10)],
     [desc |-> <<"typesense", "api_stats", "requests_per_second">>,
      labels |-> <<URL, <<"P","O","S","T">>, <<"/","d","o","c","u","m","e","n","t","s">> >>,
      value |-> Num(30, 10)]}

\* C4 as stated: in the vector output of a scrape, every key "METHOD ENDPOINT"
\* of the requests_per_second or latency_ms mapping has a sample labelled
\* METHOD, ENDPOINT that carries the key's value; the example mapping yields
\* exactly its two samples.
C4_AsStated ==
    LET s == scr[APIStatsName][1]
        body == s.reply.body
    IN
    (s.pc = "done" /\ ~s.err) =>
        /\ \A k \in DOMAIN body.requests_per_second :
             WellFormedKey(k) =>
                \E x \in VectorSamples(s, "requests_per_second") :
                    /\ x.labels = <<URL, MethodOf(k), EndpointOf(k)>>
                    /\ NumEq(x.value, body.requests_per_second[k])
        /\ \A k \in DOMAIN body.latency_ms :
             WellFormedKey(k) =>
                \E x \in VectorSamples(s, "latency_seconds") :
                    /\ x.labels = <<URL, MethodOf(k), EndpointOf(k)>>
                    /\ NumEq(x.value, body.latency_ms[k])
        /\ body.requests_per_second = ExampleRps =>
             /\ VectorSamples(s, "requests_per_second") = ExampleSamples
             /\ CountDesc(s.sent, Desc(APIStatsName, "requests_per_second")) = 2

\* C4, amended: as stated for requests_per_second; for latency_ms the sample
\* carries the key's value divided by 1000.
C4_KeySplitSamples ==
    LET s == scr[APIStatsName][1]
        body == s.reply.body
    IN
    (s.pc = "done" /\ ~s.err) =>
        /\ \A k \in DOMAIN body.requests_per_second :
             WellFormedKey(k) =>
                \E x \in VectorSamples(s, "requests_per_second") :
                    /\ x.labels = <<URL, MethodOf(k), EndpointOf(k)>>
                    /\ NumEq(x.value, body.requests_per_second[k])
        /\ \A k \in DOMAIN body.latency_ms :
             WellFormedKey(k) =>
                \E x \in VectorSamples(s, "latency_seconds") :
                    /\ x.labels = <<URL, MethodOf(k), EndpointOf(k)>>
                    /\ NumEq(Times1000(x.value), body.latency_ms[k])
        /\ body.requests_per_second = ExampleRps =>
             /\ VectorSamples(s, "requests_per_second") = ExampleSamples
             /\ CountDesc(s.sent, Desc(APIStatsName, "requests_per_second")) = 2

\* C4 witness: a scrape that returned, of the example requests_per_second
\* mapping and a latency_ms mapping with the key "POST /documents"
C4_Witness ==
    LET s == scr[APIStatsName][1] IN
    /\ s.pc = "done" /\ ~s.err
    /\ s.reply.body.requests_per_second = ExampleRps
    /\ DOMAIN s.reply.body.latency_ms = {KeyPostDocuments}

\* the samples of vector descriptor name that carry the value of key k
SamplesOfKey(s, name, k) ==
    LET m == IF name = "latency_seconds" THEN s.reply.body.latency_ms
             ELSE s.reply.body.requests_per_second
    IN {x \in VectorSamples(s, name) :
          IF name = "latency_seconds" THEN NumEq(Times1000(x.value), m[k])
          ELSE NumEq(x.value, m[k])}

\* C5 as stated: a key with no space or more than one space never ends the
\* process and never gets a sample with a guessed method / endpoint.
C5_MalformedKeyIsError ==
    /\ ~crashed
    /\ LET s == scr[APIStatsName][1] IN
       (Ended(s) /\ ~s.err) =>
           /\ \A k \in DOMAIN s.reply.body.latency_ms :
                Spaces(k) # 1 => SamplesOfKey(s, "latency_seconds", k) = {}
           /\ \A k \in DOMAIN s.reply.body.requests_per_second :
                Spaces(k) # 1 => SamplesOfKey(s, "requests_per_second", k) = {}

\* the upstream field a scalar metric is derived from, and whether the field
\* is a latency in milliseconds
SourceOf(name) ==
    CASE name = "delete_latency_seconds" -> [field |-> "delete_latency_ms", ms |-> TRUE]
      [] name = "import_latency_seconds" -> [field |-> "import_latency_ms", ms |-> TRUE]
      [] name = "search_latency_seconds" -> [field |-> "search_latency_ms", ms |-> TRUE]
      [] name = "write_latency_seconds" -> [field |-> "write_latency_ms", ms |-> TRUE]
      [] name = "delete_requests_per_second" -> [field |-> "delete_requests_per_second", ms |-> FALSE]
      [] name = "import_requests_per_second" -> [field |-> "import_requests_per_second", ms |-> FALSE]
      [] name = "search_requests_per_second" -> [field |-> "search_requests_per_second", ms |-> FALSE]
      [] name = "total_requests_per_second" -> [field |-> "total_requests_per_second", ms |-> FALSE]
      [] name = "write_requests_per_second" -> [field |-> "write_requests_per_second", ms |-> FALSE]
      [] name = "pending_write_batches" -> [field |-> "pending_write_batches", ms |-> FALSE]
      [] name = "memory_active_bytes" -> [field |-> "typesense_memory_active_bytes", ms |-> FALSE]
      [] name = "memory_allocated_bytes" -> [field |-> "typesense_memory_allocated_bytes", ms |-> FALSE]
      [] name = "memory_fragmentation_ratio" -> [field |-> "typesense_memory_fragmentation_ratio", ms |-> FALSE]
      [] name = "memory_mapped_bytes" -> [field |-> "typesense_memory_mapped_bytes", ms |-> FALSE]
      [] name = "memory_metadata_bytes" -> [field |-> "typesense_memory_metadata_bytes", ms |-> FALSE]
      [] name = "memory_resident_bytes" -> [field |-> "typesense_memory_resident_bytes", ms |-> FALSE]
      [] name = "memory_retained_bytes" -> [field |-> "typesense_memory_retained_bytes", ms |-> FALSE]

\* C6: every sample derived from a millisecond latency field (the four
\* *_latency_ms fields and the entries of latency_ms) has the value
\* raw_ms / 1000, and every other field-derived sample has the raw value.
C6_LatencyInSeconds ==
    \A c \in Names :
        LET s == scr[c][1]
            body == s.reply.body
        IN
        (Ended(s) /\ ~s.err) =>
            \A x \in BagToSet(s.sent) :
                LET name == x.desc[3] IN
                IF name = "latency_seconds"
                THEN \E k \in DOMAIN body.latency_ms :
                        NumEq(Times1000(x.value), body.latency_ms[k])
                ELSE IF name = "requests_per_second"
                THEN \E k \in DOMAIN body.requests_per_second :
                        NumEq(x.value, body.requests_per_second[k])
                ELSE IF SourceOf(name).ms
                THEN NumEq(Times1000(x.value), body[SourceOf(name).field])
                ELSE NumEq(x.value, body[SourceOf(name).field])

\* C6 witness: a scrape that sent the sample 0.123 for delete_latency_ms = 123
\* and a latency_seconds sample 0.0045 for a latency_ms entry of 4.5
C6_Witness ==
    LET s == scr[APIStatsName][1] IN
    /\ s.pc = "done"
    /\ s.reply.body.delete_latency_ms = Num(123, 1)
    /\ \E x \in BagToSet(s.sent) :
         x.desc = Desc(APIStatsName, "delete_latency_seconds") /\ NumEq(x.value, Num(123, 1000))
    /\ \E x \in VectorSamples(s, "latency_seconds") : NumEq(x.value, Num(45, 10000))

\* number of samples on the channel with descriptor desc and the one label
\* value name
CountFor(desc, name) ==
    LET of == {x \in BagToSet(ch) : x.desc = desc /\ x.labels = <<name>>} IN
    IF of = {} THEN 0 ELSE BagCardinality([x \in of |-> CopiesIn(x, ch)])

\* C7 as stated: every collection request of the aggregator yields exactly 2
\* scrape_duration_seconds samples and exactly 2 scrape_success samples, one
\* pair for cluster-metrics and one for api-stats.
C7_TwoHealthPairs ==
    aggPc = "returned" =>
        /\ CountDesc(ch, scrapeDurationDesc) = 2
        /\ CountDesc(ch, scrapeSuccessDesc) = 2
        /\ \A name \in {ClusterMetricsName, APIStatsName} :
             /\ CountFor(scrapeDurationDesc, name) = 1
             /\ CountFor(scrapeSuccessDesc, name) = 1

\* a goroutine launched by Collect can take a step
TaskStep ==
    \E name \in Names :
        \/ UpdateSend(name)
        \/ \E err \in BOOLEAN, d \in Durations : UpdateReturn(name, err, d)
        \/ SendDuration(name)
        \/ SendSuccess(name)
        \/ TaskDone(name)

\* C8: when Collect has returned, every goroutine it launched has ended: the
\* Update call of each collector in the map has returned, its duration and
\* success samples are on the channel, and no goroutine can send any more.
C8_ReturnsAfterAllTasks ==
    aggPc = "returned" =>
        /\ \A name \in Collectors :
             /\ task[name].pc = "exited"
             /\ CountFor(scrapeDurationDesc, name) = 1
             /\ CountFor(scrapeSuccessDesc, name) = 1
        /\ ~ENABLED TaskStep

\* C8 witness: Collect has returned with two collectors in the map, one of
\* whose Update calls failed after sending a sample
C8_Witness ==
    /\ aggPc = "returned"
    /\ Collectors = Names
    /\ task[APIStatsName].err /\ task[APIStatsName].updateSent = 1
    /\ ~task[ClusterMetricsName].err

\* the fetch of the scrape failed: a transport, status or parse error
FetchFailed(s) == s.pc \in {"deferred", "done", "panicked"} /\ s.err

\* C9: a collector that fails with a transport, status or parse error returns
\* without ending the process, and in the same collection request the other
\* collector, given a valid body, still sends every field-derived metric and
\* its up, total_scrapes and json_parse_failures metrics.
C9_FailureIsolation ==
    \A c \in Names, i \in Slots :
        LET f == scr[c][i] IN
        /\ (FetchFailed(f) /\ Ended(f)) => (f.pc = "done" /\ f.live = deferredSends)
        /\ \A d \in Names \ {c}, j \in Slots :
             LET s == scr[d][j]
                 body == s.reply.body
             IN
             (FetchFailed(f) /\ Ended(f) /\ Ended(s) /\ ~s.err /\ KeysSplit(d, body)) =>
                 /\ s.pc = "done"
                 /\ s.upSet = 1
                 /\ \A n \in 1..Len(metricNames(d)) :
                      CountDesc(s.sent, Desc(d, metricNames(d)[n])) = 1
                 /\ d = APIStatsName =>
                      /\ CountDesc(s.sent, Desc(d, "latency_seconds"))
                           = Cardinality(DOMAIN body.latency_ms)
                      /\ CountDesc(s.sent, Desc(d, "requests_per_second"))
                           = Cardinality(DOMAIN body.requests_per_second)
                 /\ s.live = <<"up", "total_scrapes", "json_parse_failures">>

\* C9 witness: the cluster-metrics scrape of a request has failed on a 500
\* while the api-stats scrape of the request has sent its vector samples
C9_Witness ==
    \E i, j \in Slots :
        /\ scr[ClusterMetricsName][i].pc = "done"
        /\ scr[ClusterMetricsName][i].err
        /\ scr[ClusterMetricsName][i].reply.status = 500
        /\ scr[APIStatsName][j].pc = "done"
        /\ ~scr[APIStatsName][j].err
        /\ CountDesc(scr[APIStatsName][j].sent, Desc(APIStatsName, "requests_per_second")) = 2

\* C10: once every scrape begun for a collector has finished, overlapping or
\* not, its total_scrapes counter equals the number of scrapes begun.
C10_NoLostIncrement ==
    \A c \in Names :
        (\A i \in Slots : scr[c][i].pc \in {"idle", "done"}) =>
            totalScrapes[c] = started[c]

\* C10 witness: two scrapes of api-stats that ran at the same time have both
\* finished
C10_Witness ==
    /\ \A i \in 1..2 : scr[APIStatsName][i].pc = "done"
    /\ started[APIStatsName] = 2

\* text t, between the quotes of field f, is not a number of the field's type:
\* it is empty, or holds a character no number of that type has
FieldFails(f, t) ==
    \/ Len(t) = 0
    \/ \E i \in 1..Len(t) :
          t[i] \notin (IF f \in ClusterFloatFields THEN DigitChars \cup {"."} ELSE DigitChars)

\* the scrape read, with status 200, a JSON body in which some quoted field
\* does not parse
FieldParseFailure(s) ==
    /\ ~s.reply.getErr
    /\ s.reply.status = StatusOK
    /\ ~s.reply.readErr
    /\ s.reply.validJSON
    /\ \E f \in ClusterFields : FieldFails(f, s.reply.body.wire[f])

EmptyLabel(x, i) == IF i = 1 THEN x.labels[1] = "" ELSE x.labels[i] = <<>>

\* the metric names of collector c
TableNames(c) ==
    {metricNames(c)[i] : i \in 1..Len(metricNames(c))}
    \cup {statNames(c)[i] : i \in 1..Len(statNames(c))}

\* C12 as stated: every sample a scrape has sent carries exactly one value for
\* each label its descriptor declares, and none of the values is the empty
\* string, whatever the upstream body, keys "GET " and "GET  /search" included.
C12_LabelsNeverEmpty ==
    \A c \in Names :
        \A x \in BagToSet(scr[c][1].sent) :
            \A name \in TableNames(c) :
                x.desc = Desc(c, name) =>
                    /\ Len(x.labels) = Len(labelNames(c, name))
                    /\ \A i \in 1..Len(x.labels) : ~EmptyLabel(x, i)

\* the samples of descriptor desc on the channel that are labelled name
SamplesFor(desc, name) == {x \in BagToSet(ch) : x.desc = desc /\ x.labels = <<name>>}

\* C13: once a collector's task has sent its health samples, the channel holds
\* for that collector exactly one scrape_duration_seconds sample, carrying the
\* measured duration, and exactly one scrape_success sample, whose value is 0
\* when the collector's Update returned an error and 1 when it returned none;
\* both are there whether or not Update failed.
C13_SuccessReflectsUpdate ==
    \A name \in Collectors :
        task[name].pc \in {"wgDone", "exited"} =>
            /\ CountFor(scrapeDurationDesc, name) = 1
            /\ CountFor(scrapeSuccessDesc, name) = 1
            /\ \A x \in SamplesFor(scrapeDurationDesc, name) :
                 NumEq(x.value, task[name].duration)
            /\ \A x \in SamplesFor(scrapeSuccessDesc, name) :
                 /\ task[name].err => NumEq(x.value, Whole(0))
                 /\ ~task[name].err => NumEq(x.value, Whole(1))

\* C13 witness: a collection request has returned with both collectors in the
\* map; the Update of cluster-metrics failed without sending anything, that of
\* api-stats succeeded after sending samples
C13_Witness ==
    /\ aggPc = "returned"
    /\ Collectors = Names
    /\ task[ClusterMetricsName].err /\ task[ClusterMetricsName].updateSent = 0
    /\ ~task[APIStatsName].err /\ task[APIStatsName].updateSent = MaxUpdateSamples

\* the scrapes of collector c whose fetchAndDecode has returned after a body
\* could not be read or decoded
ParseFailed(c) ==
    {i \in Slots : /\ scr[c][i].pc \in {"fetched", "emitting", "deferred", "done", "panicked"}
                   /\ ~scr[c][i].reply.getErr
                   /\ scr[c][i].reply.status = StatusOK
                   /\ scr[c][i].err}

\* C14: for each collector total_scrapes and json_parse_failures never
\* decrease; a step changes total_scrapes only by adding 1 as a scrape begins
\* and json_parse_failures only by adding 1 as a scrape's fetchAndDecode
\* returns, which each scrape does once; total_scrapes counts the scrapes
\* begun, and json_parse_failures never exceeds total_scrapes.
C14_CountersMonotone ==
    /\ [](\A c \in Names :
            /\ totalScrapes[c] = started[c]
            /\ jsonParseFailures[c] <= totalScrapes[c])
    /\ [][\A c \in Names :
            /\ totalScrapes'[c] >= totalScrapes[c]
            /\ jsonParseFailures'[c] >= jsonParseFailures[c]
            /\ totalScrapes'[c] # totalScrapes[c] =>
                 /\ totalScrapes'[c] = totalScrapes[c] + 1
                 /\ \E i \in Slots : /\ scr[c][i].pc = "idle"
                                     /\ scr'[c][i].pc = "fetching"
            /\ jsonParseFailures'[c] # jsonParseFailures[c] =>
                 /\ jsonParseFailures'[c] = jsonParseFailures[c] + 1
                 /\ \E i \in Slots : /\ scr[c][i].pc = "fetching"
                                     /\ scr'[c][i].pc = "fetched"
            /\ \A i \in Slots :
                 (scr[c][i].pc = "idle" /\ scr'[c][i].pc = "fetching") =>
                     totalScrapes'[c] = totalScrapes[c] + 1]_vars

\* C14 witness: two overlapping scrapes of cluster-metrics have both read a
\* body that is not JSON, so that both counters stand at 2
C14_Witness ==
    /\ ParseFailed(ClusterMetricsName) = {1, 2}
    /\ \A i \in {1, 2} : scr[ClusterMetricsName][i].before.total < 2
    /\ scr[ClusterMetricsName][2].before.failures = 0
    /\ jsonParseFailures[ClusterMetricsName] = 2
    /\ totalScrapes[ClusterMetricsName] = 2

\* the registry has written the up sample of the scrape in slot i of c
UpWritten(c, i) == scr[c][i].pc = "done" /\ Len(scr[c][i].written) = 3

\* C15 as stated: whatever the interleaving of two scrapes of one collector,
\* the up sample of a scrape is 1 exactly when that scrape's own
\* fetch-and-decode succeeded, which is exactly when that scrape has sent
\* field-derived samples.
C15_UpIsOwnOutcome ==
    \A c \in Names, i \in Slots :
        UpWritten(c, i) =>
            /\ scr[c][i].written[1] = 1 <=> ~scr[c][i].err
            /\ scr[c][i].written[1] = 1 <=> scr[c][i].sent # EmptyBag

\* the descriptors of what the scrape in slot 1 of c has put on the channel:
\* those of its const samples and those of the metric objects of the deferred
\* sends
Collected(c) ==
    {x.desc : x \in BagToSet(scr[c][1].sent)}
    \cup {Desc(c, scr[c][1].live[k]) : k \in 1..Len(scr[c][1].live)}

\* C16 as stated: the descriptors Describe announces for a collector contain
\* the descriptor of every sample a scrape of it sends, the latency_seconds
\* and requests_per_second descriptors of api-stats included.
C16_DescribeCoversCollect ==
    \A c \in Names : Collected(c) \subseteq Describe(c)

====
